---- MODULE Spec2Model ----
(***************************************************************************)
(* State-machine model of the collator staking pallet (src/src/lib.rs).    *)
(*                                                                         *)
(* Storage items are the variables, every dispatchable / hook is one       *)
(* action.  Helper functions of the pallet are operators over a storage    *)
(* record `s` (one field per storage item) returning a result record       *)
(* [ok, err, st, val]; a dispatchable that returns Err leaves storage      *)
(* untouched (every #[pallet::call] body runs in a storage layer that is   *)
(* rolled back on Err).                                                    *)
(*                                                                         *)
(* Positions are 0-based as in the source; the sequence element at source  *)
(* position p is cl[p + 1].                                                *)
(***************************************************************************)
EXTENDS Integers, Sequences, FiniteSets, TLC

(***************************************************************************)
(* Config parameters (trait Config) and the accounts of the model.         *)
(***************************************************************************)
Accounts == {1, 2, 3, 4}

\* accounts whose session keys are registered (T::CollatorRegistration)
Registered == {1, 2, 3}

MaxCandidates == 3

MaxInvulnerables == 2

MinEligibleCollators == 1

KickThreshold == 2

MinStake == 2

MaxStakedCandidates == 2

CollatorUnstakingDelay == 2

UserUnstakingDelay == 1

\* the pot account (PotId::into_account_truncating)
Pot == 0

AllAccounts == Accounts \cup {Pot}

\* CollatorRewardPercentage: put by GenesisConfig::build, no call writes it
CollatorRewardPercentage == 20

\* Currency::minimum_balance()
ExistentialDeposit == 1

(***************************************************************************)
(* Bounds of the exploration.                                              *)
(***************************************************************************)
\* highest block number the clock reaches
MaxBlock == 5

\* number of operations in one explored run
MaxSteps == 3

\* highest session index the host reaches
MaxSession == 2

Sessions == 0..MaxSession

\* fees the host moves into the pot in one go
FeePerBlock == 4

\* the percentages passed to set_autocompound
AutocompoundPercents == {0, 50}

\* free balance every account starts with
InitialBalance == 6

\* largest amount passed to stake
MaxAmount == 2

Amounts == 1..MaxAmount

\* the values passed to set_candidacy_bond and, as deposit, to take_candidate_slot
Bonds == 1..(MaxAmount + 1)

\* the accounts named in set_invulnerables / add_invulnerable / remove_invulnerable
InvulnerablePool == {1, 2, 4}

None == -1

VARIABLES
    CandidateList,      \* Seq of [who, deposit], source order
    Invulnerables,      \* Seq of accounts
    LastAuthoredBlock,  \* account -> block (ValueQuery: 0 when absent)
    DesiredCandidates,
    CandidacyBond,
    Stake,              \* <<candidate, staker>> -> amount (ValueQuery: 0 when absent)
    UnstakingRequests,  \* account -> Seq of [block, amount]
    free_balance,       \* Currency: free balance
    reserved_balance,   \* Currency: reserved balance
    CurrentSession,
    TotalBlocks,        \* session -> blocks (ValueQuery: 0 when absent)
    Rewards,            \* session -> balance (ValueQuery: 0 when absent)
    ProducedBlocks,     \* <<session, account>> -> blocks (ValueQuery: 0 when absent)
    Autocompound,       \* account -> percent (ValueQuery: 0 when absent)
    block_number,       \* frame_system block number
    last,               \* observation of the last operation: name, arguments, result
    steps               \* number of operations run so far

vars == <<CandidateList, Invulnerables, LastAuthoredBlock, DesiredCandidates,
          CandidacyBond, Stake, UnstakingRequests, free_balance,
          reserved_balance, CurrentSession, TotalBlocks, Rewards, ProducedBlocks,
          Autocompound, block_number, last, steps>>

(***************************************************************************)
(* Sequence helpers (Vec / BoundedVec operations).                         *)
(***************************************************************************)
\* Vec::remove(p), 0-based
RemoveAt(seq, p) == SubSeq(seq, 1, p) \o SubSeq(seq, p + 2, Len(seq))

\* Vec::insert(p, x), 0-based
InsertAt(seq, p, x) == SubSeq(seq, 1, p) \o <<x>> \o SubSeq(seq, p + 1, Len(seq))

\* Iterator::position over the outcomes of the predicate, one per element:
\* 0-based index of the first TRUE, None if none
FirstIndex(hits) ==
    IF \E i \in 1..Len(hits) : hits[i]
    THEN (CHOOSE i \in 1..Len(hits) : hits[i] /\ \A j \in 1..(i - 1) : ~hits[j]) - 1
    ELSE None

Whos(cl) == {cl[i].who : i \in 1..Len(cl)}

Minimum(a, b) == IF a <= b THEN a ELSE b

\* saturating_sub on unsigned integers
SatSub(a, b) == IF a >= b THEN a - b ELSE 0

RECURSIVE SumOver(_, _)
SumOver(f, S) ==
    IF S = {} THEN 0
    ELSE LET x == CHOOSE y \in S : TRUE IN f[x] + SumOver(f, S \ {x})

\* slice::sort on account ids (insertion sort, duplicates kept)
RECURSIVE SortAccounts(_)
SortAccounts(seq) ==
    IF Len(seq) <= 1 THEN seq
    ELSE LET rest == SortAccounts(Tail(seq))
             x == Head(seq)
             k == Cardinality({i \in 1..Len(rest) : rest[i] < x})
         IN InsertAt(rest, k, x)

(***************************************************************************)
(* Result records.                                                         *)
(***************************************************************************)
Ok(s, v) == [ok |-> TRUE, err |-> "Ok", st |-> s, val |-> v]

Err(e, s) == [ok |-> FALSE, err |-> e, st |-> s, val |-> None]

\* a Rust panic (index out of bounds, division by zero): the block is not built
Panic(s) == [ok |-> FALSE, err |-> "panic", st |-> s, val |-> None]

(***************************************************************************)
(* The storage as one record.                                              *)
(***************************************************************************)
Store ==
    [cl |-> CandidateList, inv |-> Invulnerables, lab |-> LastAuthoredBlock,
     desired |-> DesiredCandidates, bond |-> CandidacyBond, stake |-> Stake,
     reqs |-> UnstakingRequests, free |-> free_balance,
     reserved |-> reserved_balance, session |-> CurrentSession,
     total |-> TotalBlocks, rewards |-> Rewards, produced |-> ProducedBlocks,
     auto |-> Autocompound, created |-> {}, paid |-> <<>>]

(***************************************************************************)
(* Currency (ReservableCurrency) as used by the pallet.                    *)
(***************************************************************************)
reserve(s, who, amount) ==
    IF s.free[who] >= amount
    THEN Ok([s EXCEPT !.free[who] = @ - amount, !.reserved[who] = @ + amount], 0)
    ELSE Err("InsufficientBalance", s)

unreserve(s, who, amount) ==
    LET a == Minimum(amount, s.reserved[who])
    IN [s EXCEPT !.free[who] = @ + a, !.reserved[who] = @ - a]

\* Currency::transfer(from, to, value, KeepAlive)
transfer(s, from, to, value) ==
    IF value = 0 \/ from = to THEN Ok(s, 0)
    ELSE IF s.free[from] < value THEN Err("InsufficientBalance", s)
    ELSE IF s.free[from] + s.reserved[from] - value < ExistentialDeposit THEN Err("KeepAlive", s)
    ELSE IF s.free[to] + s.reserved[to] + value < ExistentialDeposit
         THEN Err("ExistentialDeposit", s)
    ELSE Ok([s EXCEPT !.free[from] = @ - value, !.free[to] = @ + value], 0)

\* Percent * balance: the product over 100, rounded to the nearest whole number,
\* a half rounded down
PercentMul(percent, x) ==
    LET prod == x * percent
    IN (prod \div 100) + (IF prod % 100 > 50 THEN 1 ELSE 0)

(***************************************************************************)
(* Helper functions of impl Pallet.                                        *)
(***************************************************************************)
\* get_candidate: position of the account in CandidateList, None when absent
get_candidate(s, account) ==
    FirstIndex([i \in 1..Len(s.cl) |-> s.cl[i].who = account])

\* is_invulnerable: binary_search on the sorted Invulnerables
is_invulnerable(s, account) == \E i \in 1..Len(s.inv) : s.inv[i] = account

eligible_collators(s) == Len(s.cl) + Len(s.inv)

\* The list after removing the entry at `position` and re-inserting it before the
\* first entry whose deposit is >= its own (at the end when there is none).
reassign_candidate_position(cl, position) ==
    LET info == cl[position + 1]
        candidates == RemoveAt(cl, position)
        found == FirstIndex([i \in 1..Len(candidates) |->
                                candidates[i].deposit >= info.deposit])
        new_pos == IF found = None THEN Len(candidates) ELSE found
    IN InsertAt(candidates, new_pos, info)

\* add_stake_to_candidate that records the stake without reserving it
add_stake_to_candidate_without_reserve(s, staker, amount, candidate) ==
    LET final_staker_stake == s.stake[<<candidate.who, staker>>] + amount
    IN IF final_staker_stake < MinStake THEN Err("InsufficientStake", s)
       ELSE Ok([s EXCEPT !.stake[<<candidate.who, staker>>] = final_staker_stake],
               [candidate EXCEPT !.deposit = @ + amount])

\* add_stake_to_candidate(staker, amount, &mut candidate): val is the candidate
\* record as the callee leaves it behind the reference it was handed.
add_stake_to_candidate(s, staker, amount, candidate) ==
    LET final_staker_stake == s.stake[<<candidate.who, staker>>] + amount
        r == reserve(s, staker, amount)
    IN IF final_staker_stake < MinStake THEN Err("InsufficientStake", s)
       ELSE IF ~r.ok THEN r
       ELSE Ok([r.st EXCEPT !.stake[<<candidate.who, staker>>] = final_staker_stake],
               [candidate EXCEPT !.deposit = @ + amount])

\* do_stake_at_position: `candidate` borrows an element of the value returned by
\* CandidateList::get(), a decoded copy of the stored list, so the deposit that
\* add_stake_to_candidate accrues is dropped with that copy and the stored list
\* keeps its deposit; reassign_candidate_position then works on the stored list.
do_stake_at_position(s, staker, amount, position, sort) ==
    IF ~(position < Len(s.cl)) THEN Err("NotCandidate", s)
    ELSE LET candidate == s.cl[position + 1]
             r == add_stake_to_candidate(s, staker, amount, candidate)
         IN IF ~r.ok THEN Err(r.err, s)
            ELSE IF sort
                 THEN Ok([r.st EXCEPT !.cl = reassign_candidate_position(@, position)],
                         get_candidate([cl |-> reassign_candidate_position(r.st.cl, position)],
                                       candidate.who))
                 ELSE Ok(r.st, position)

do_stake_for_account(s, staker, amount, candidate, sort) ==
    LET position == get_candidate(s, candidate)
    IN IF position = None THEN Err("NotCandidate", s)
       ELSE do_stake_at_position(s, staker, amount, position, sort)

\* do_register_as_candidate: the closure of CandidateList::try_mutate works on
\* `candidates`, the decoded list; do_stake_at_position inside it reads and
\* writes the stored list (s.cl), which the closure's result overwrites on Ok.
do_register_as_candidate(s, who, now) ==
    LET deposit == s.bond
        already_staked == SumOver([a \in Accounts |-> s.stake[<<who, a>>]], Accounts)
        info == [who |-> who, deposit |-> already_staked]
        s1 == [s EXCEPT !.lab[who] = now + KickThreshold]
        candidates == InsertAt(s.cl, 0, info)
        sort == already_staked # 0
        r == do_stake_at_position(s1, who, deposit, 0, sort)
    IN IF who \in Whos(s.cl) THEN Err("AlreadyCandidate", s)
       ELSE IF Len(s.cl) >= MaxCandidates THEN Err("InsertToCandidateListFailed", s1)
       ELSE IF ~r.ok THEN r
       ELSE Ok([r.st EXCEPT !.cl = candidates], info)

\* do_unstake with the user delay applied to every staker, the candidate included
do_unstake_user_delay(s, staker, candidate, has_penalty, maybe_position, now) ==
    LET stake == s.stake[<<candidate, staker>>]
        s1 == [s EXCEPT !.stake[<<candidate, staker>>] = 0]
        block == now + UserUnstakingDelay
        s2 == IF ~has_penalty THEN unreserve(s1, staker, stake)
              ELSE [s1 EXCEPT !.reqs[staker] = Append(@, [block |-> block, amount |-> stake]),
                              !.created = @ \cup {[staker |-> staker, candidate |-> candidate,
                                                   block |-> block, amount |-> stake]}]
        s3 == IF maybe_position = None THEN s2
              ELSE [s2 EXCEPT !.cl = reassign_candidate_position(@, maybe_position)]
    IN IF stake = 0 THEN Ok(s1, 0)
       ELSE IF has_penalty /\ Len(s.reqs[staker]) >= MaxStakedCandidates
            THEN Err("TooManyUnstakingRequests", s1)
       ELSE Ok(s3, stake)

\* do_unstake whose queue takes a request whatever its length
do_unstake_unbounded_queue(s, staker, candidate, has_penalty, maybe_position, now) ==
    LET stake == s.stake[<<candidate, staker>>]
        s1 == [s EXCEPT !.stake[<<candidate, staker>>] = 0]
        delay == IF staker = candidate THEN CollatorUnstakingDelay ELSE UserUnstakingDelay
        block == now + delay
        s2 == IF ~has_penalty THEN unreserve(s1, staker, stake)
              ELSE [s1 EXCEPT !.reqs[staker] = Append(@, [block |-> block, amount |-> stake]),
                              !.created = @ \cup {[staker |-> staker, candidate |-> candidate,
                                                   block |-> block, amount |-> stake]}]
        s3 == IF maybe_position = None THEN s2
              ELSE [s2 EXCEPT !.cl = reassign_candidate_position(@, maybe_position)]
    IN IF stake = 0 THEN Ok(s1, 0) ELSE Ok(s3, stake)

\* do_unstake(staker, candidate, has_penalty, maybe_position); `created` collects
\* the unstake requests the operation pushed (who, for which candidate, unlock block).
do_unstake(s, staker, candidate, has_penalty, maybe_position, now) ==
    LET stake == s.stake[<<candidate, staker>>]
        s1 == [s EXCEPT !.stake[<<candidate, staker>>] = 0]
        delay == IF staker = candidate THEN CollatorUnstakingDelay ELSE UserUnstakingDelay
        block == now + delay
        s2 == IF ~has_penalty THEN unreserve(s1, staker, stake)
              ELSE [s1 EXCEPT !.reqs[staker] = Append(@, [block |-> block, amount |-> stake]),
                              !.created = @ \cup {[staker |-> staker, candidate |-> candidate,
                                                   block |-> block, amount |-> stake]}]
        s3 == IF maybe_position = None THEN s2
              ELSE [s2 EXCEPT !.cl = reassign_candidate_position(@, maybe_position)]
    IN IF stake = 0 THEN Ok(s1, 0)
       ELSE IF has_penalty /\ Len(s.reqs[staker]) >= MaxStakedCandidates
            THEN Err("TooManyUnstakingRequests", s1)
       ELSE Ok(s3, stake)

\* try_remove_candidate_at_position: Vec::remove panics when idx is out of bounds
try_remove_candidate_at_position(s, idx, remove_last_authored, has_penalty, now) ==
    IF idx >= Len(s.cl) THEN Panic(s)
    ELSE LET candidate == s.cl[idx + 1]
             candidates == RemoveAt(s.cl, idx)
             s1 == IF remove_last_authored THEN [s EXCEPT !.lab[candidate.who] = 0] ELSE s
             r == do_unstake(s1, candidate.who, candidate.who, has_penalty, None, now)
         IN IF ~r.ok THEN r
            ELSE Ok([r.st EXCEPT !.cl = candidates], candidate)

try_remove_candidate_from_account(s, who, remove_last_authored, has_penalty, now) ==
    LET idx == get_candidate(s, who)
    IN IF idx = None THEN Err("NotCandidate", s)
       ELSE try_remove_candidate_at_position(s, idx, remove_last_authored, has_penalty, now)

\* do_claim: walks the queue from the front and stops at the first request that
\* is not yet due; the requests walked are unreserved and drained.
RECURSIVE claim_prefix(_, _)
claim_prefix(requests, curr_block) ==
    IF requests = <<>> \/ Head(requests).block > curr_block THEN 0
    ELSE 1 + claim_prefix(Tail(requests), curr_block)

RECURSIVE unreserve_each(_, _, _)
unreserve_each(s, who, requests) ==
    IF requests = <<>> THEN s
    ELSE unreserve_each(unreserve(s, who, Head(requests).amount), who, Tail(requests))

\* do_claim that unreserves the due requests and leaves them in the queue
do_claim_keeps_requests(s, who, now) ==
    LET requests == s.reqs[who]
        pos == claim_prefix(requests, now)
    IN Ok(unreserve_each(s, who, SubSeq(requests, 1, pos)), pos)

do_claim(s, who, now) ==
    LET requests == s.reqs[who]
        pos == claim_prefix(requests, now)
        s1 == unreserve_each(s, who, SubSeq(requests, 1, pos))
    IN Ok([s1 EXCEPT !.reqs[who] = SubSeq(requests, pos + 1, Len(requests))], pos)

(***************************************************************************)
(* Initial states.  GenesisConfig::build stores the invulnerables (sorted, *)
(* without duplicates), the bond and the desired candidates.  The          *)
(* candidate registry is storage the chain carries: it starts empty or     *)
(* holds candidates as registration is documented to leave them, each with *)
(* its own bond as deposit, reserved and recorded in Stake, the list       *)
(* sorted and disjoint from the invulnerables.  With an empty registry the *)
(* chain is in session 0 at block 1 and the pot is empty; with candidates  *)
(* it is in session 1 at block 2: in session 0 (block 1) every collator    *)
(* was noted as author once, and end_session(0) recorded the pot, which    *)
(* holds the existential deposit and one round of fees.                    *)
(***************************************************************************)
InitialBond == MinStake

\* the sequences without repetition over S
Arrangements(S, n) ==
    {o \in [1..n -> S] : \A i, j \in 1..n : i # j => o[i] # o[j]}

\* n candidates, each with the initial bond as deposit
SeedLists(S) ==
    {[i \in 1..Len(o) |-> [who |-> o[i], deposit |-> InitialBond]] :
        o \in {q \in UNION {Arrangements(S, n) : n \in 0..Minimum(MaxCandidates, Cardinality(S))} :
                  \A i \in 1..(Len(q) - 1) : q[i] < q[i + 1]}}

NoOp ==
    [op |-> "genesis", who |-> 0, tgt |-> 0, amt |-> 0, res |-> "Ok", created |-> {},
     removed |-> {}]

Init ==
    /\ Invulnerables \in {<<>>, <<1>>}
    /\ CandidateList \in SeedLists(Registered \ {Invulnerables[i] : i \in 1..Len(Invulnerables)})
    /\ CurrentSession = IF CandidateList = <<>> THEN 0 ELSE 1
    /\ block_number = 1 + CurrentSession
    /\ LET collators == Whos(CandidateList) \cup {Invulnerables[i] : i \in 1..Len(Invulnerables)}
       IN /\ LastAuthoredBlock = [a \in Accounts |->
                                    IF CurrentSession = 1 /\ a \in collators THEN 1 ELSE 0]
          /\ TotalBlocks = [n \in Sessions |->
                              IF CurrentSession = 1 /\ n = 0 THEN Cardinality(collators) ELSE 0]
    /\ ProducedBlocks = [k \in Sessions \X Accounts |->
                           IF k[1] = 0 /\ k[2] \in Whos(CandidateList) THEN 1 ELSE 0]
    /\ Rewards = [n \in Sessions |->
                    IF CurrentSession = 1 /\ n = 0 THEN ExistentialDeposit + FeePerBlock ELSE 0]
    /\ Autocompound = [a \in Accounts |-> 0]
    /\ DesiredCandidates = 2
    /\ CandidacyBond = InitialBond
    /\ Stake = [k \in Accounts \X Accounts |->
                  IF k[1] = k[2] /\ k[1] \in Whos(CandidateList) THEN InitialBond ELSE 0]
    /\ UnstakingRequests = [a \in Accounts |-> <<>>]
    /\ reserved_balance = [a \in AllAccounts |->
                             IF a \in Whos(CandidateList) THEN InitialBond ELSE 0]
    /\ free_balance = [a \in AllAccounts |->
                         IF a = Pot THEN Rewards[0] ELSE InitialBalance - reserved_balance[a]]
    /\ last = NoOp
    /\ steps = 0

\* a dispatch layer that keeps whatever the call wrote, failed or not
Committed_without_rollback(s, r) == r.st

\* #[pallet::call]: each dispatchable runs in a storage layer of its own; what it
\* wrote is committed when it returns Ok and discarded when it returns Err
Committed(s, r) == IF r.ok THEN r.st ELSE s

(***************************************************************************)
(* An operation ends: storage is written when it returned Ok and is left   *)
(* as it was when it returned Err (or panicked).  `last` keeps the         *)
(* arguments of an operation that changed storage, the unstake requests    *)
(* it created and the candidates it removed, and the result of any         *)
(* operation; `steps` counts the operations of the run.                    *)
(***************************************************************************)
Finish(op, who, tgt, amt, r) ==
    LET s == Committed(Store, r)
    IN /\ CandidateList' = s.cl
       /\ Invulnerables' = s.inv
       /\ LastAuthoredBlock' = s.lab
       /\ DesiredCandidates' = s.desired
       /\ CandidacyBond' = s.bond
       /\ Stake' = s.stake
       /\ UnstakingRequests' = s.reqs
       /\ free_balance' = s.free
       /\ reserved_balance' = s.reserved
       /\ CurrentSession' = s.session
       /\ TotalBlocks' = s.total
       /\ Rewards' = s.rewards
       /\ ProducedBlocks' = s.produced
       /\ Autocompound' = s.auto
       /\ last' = IF r.ok /\ r.st # Store
                  THEN [op |-> op, who |-> who, tgt |-> tgt, amt |-> amt, res |-> "Ok",
                        created |-> s.created,
                        removed |-> Whos(CandidateList) \ Whos(s.cl)]
                  ELSE [NoOp EXCEPT !.op = op, !.res = r.err]
       /\ steps' = steps + 1
       /\ UNCHANGED block_number

(***************************************************************************)
(* Dispatchables.                                                          *)
(***************************************************************************)
\* set_invulnerables(new)
set_invulnerables_call(s, new) ==
    LET new_with_keys == SelectSeq(new, LAMBDA a : a \in Registered)
        bounded_invulnerables == SortAccounts(new_with_keys)
    IN IF new = <<>> /\ ~(Len(s.cl) >= MinEligibleCollators) THEN Err("TooFewEligibleCollators", s)
       ELSE IF ~(Len(new) <= MaxInvulnerables) THEN Err("TooManyInvulnerables", s)
       ELSE Ok([s EXCEPT !.inv = bounded_invulnerables], 0)

\* set_desired_candidates(max)
set_desired_candidates_call(s, max) ==
    IF ~(max <= MaxCandidates + MaxInvulnerables) THEN Err("TooManyDesiredCandidates", s)
    ELSE Ok([s EXCEPT !.desired = max], 0)

\* set_candidacy_bond(bond)
set_candidacy_bond_call(s, bond) ==
    LET bond_increased == s.bond < bond
        initial_len == Len(s.cl)
        found == FirstIndex([i \in 1..Len(s.cl) |-> s.cl[i].deposit >= bond])
        first_safe_candidate == IF found = None THEN initial_len ELSE found
        kicked == {s.cl[i].who : i \in 1..first_safe_candidate}
        s1 == [s EXCEPT !.bond = bond]
    IN IF bond_increased /\ initial_len > 0
       THEN Ok([s1 EXCEPT !.cl = SubSeq(@, first_safe_candidate + 1, initial_len),
                          !.lab = [a \in Accounts |-> IF a \in kicked THEN 0 ELSE @[a]]],
               first_safe_candidate)
       ELSE Ok(s1, 0)

\* register_as_candidate(origin = who)
register_as_candidate_call(s, who, now) ==
    IF ~(Len(s.cl) < MaxCandidates) THEN Err("TooManyCandidates", s)
    ELSE IF is_invulnerable(s, who) THEN Err("AlreadyInvulnerable", s)
    ELSE IF who \notin Registered THEN Err("CollatorNotRegistered", s)
    ELSE do_register_as_candidate(s, who, now)

\* leave_intent that hands the self-stake back at once
leave_intent_without_penalty(s, who, now) ==
    IF ~(eligible_collators(s) > MinEligibleCollators) THEN Err("TooFewEligibleCollators", s)
    ELSE try_remove_candidate_from_account(s, who, TRUE, FALSE, now)

\* leave_intent(origin = who)
leave_intent_call(s, who, now) ==
    IF ~(eligible_collators(s) > MinEligibleCollators) THEN Err("TooFewEligibleCollators", s)
    ELSE try_remove_candidate_from_account(s, who, TRUE, TRUE, now)

\* add_invulnerable that leaves `who` in the candidate list
add_invulnerable_keeps_candidate(s, who, now) ==
    LET pos == Cardinality({i \in 1..Len(s.inv) : s.inv[i] < who})
    IN IF who \notin Registered THEN Err("CollatorNotRegistered", s)
       ELSE IF is_invulnerable(s, who) THEN Err("AlreadyInvulnerable", s)
       ELSE IF Len(s.inv) >= MaxInvulnerables THEN Err("TooManyInvulnerables", s)
       ELSE Ok([s EXCEPT !.inv = InsertAt(@, pos, who)], 0)

\* add_invulnerable(who)
add_invulnerable_call(s, who, now) ==
    LET pos == Cardinality({i \in 1..Len(s.inv) : s.inv[i] < who})
        s1 == [s EXCEPT !.inv = InsertAt(@, pos, who)]
        r == try_remove_candidate_from_account(s1, who, FALSE, FALSE, now)
    IN IF who \notin Registered THEN Err("CollatorNotRegistered", s)
       ELSE IF is_invulnerable(s, who) THEN Err("AlreadyInvulnerable", s)
       ELSE IF Len(s.inv) >= MaxInvulnerables THEN Err("TooManyInvulnerables", s)
       ELSE IF r.ok THEN Ok(r.st, 0) ELSE Ok(s1, 0)

\* remove_invulnerable(who)
remove_invulnerable_call(s, who) ==
    LET pos == FirstIndex([i \in 1..Len(s.inv) |-> s.inv[i] = who])
    IN IF ~(eligible_collators(s) > MinEligibleCollators) THEN Err("TooFewEligibleCollators", s)
       ELSE IF pos = None THEN Err("NotInvulnerable", s)
       ELSE Ok([s EXCEPT !.inv = RemoveAt(@, pos)], 0)

\* take_candidate_slot(origin = who, deposit, target)
take_candidate_slot_call(s, who, deposit, target, now) ==
    LET r == try_remove_candidate_from_account(s, target, TRUE, FALSE, now)
    IN IF is_invulnerable(s, who) THEN Err("AlreadyInvulnerable", s)
       ELSE IF ~(deposit >= s.bond) THEN Err("InsufficientBond", s)
       ELSE IF who \notin Registered THEN Err("CollatorNotRegistered", s)
       ELSE IF ~(Len(s.cl) >= MaxCandidates) THEN Err("CanRegister", s)
       ELSE IF ~r.ok THEN r
       ELSE IF ~(deposit > r.val.deposit) THEN Err("InsufficientBond", r.st)
       ELSE Ok(r.st, 0)

\* stake(origin = who, candidate, stake)
stake_call(s, who, candidate, amount) == do_stake_for_account(s, who, amount, candidate, TRUE)

\* unstake_from that applies the penalty whether or not `candidate` is in the list
unstake_from_always_delayed(s, who, candidate, now) ==
    do_unstake(s, who, candidate, TRUE, get_candidate(s, candidate), now)

\* unstake_from(origin = who, candidate)
unstake_from_call(s, who, candidate, now) ==
    LET pos == get_candidate(s, candidate)
    IN do_unstake(s, who, candidate, pos # None, pos, now)

\* unstake_all(origin = who): Stake::iter() visits the entries in storage-key
\* order, here `order`; the positions come from the list read before the loop.
RECURSIVE unstake_all_loop(_, _, _, _, _)
unstake_all_loop(s, who, order, candidate_set, now) ==
    IF order = <<>> THEN Ok(s, 0)
    ELSE LET candidate == Head(order)
             pos == candidate_set[candidate]
             r == do_unstake(s, who, candidate, pos # None, pos, now)
         IN IF ~r.ok THEN r
            ELSE unstake_all_loop(r.st, who, Tail(order), candidate_set, now)

unstake_all_call(s, who, order, now) ==
    LET candidate_set == [c \in Accounts |-> get_candidate(s, c)]
    IN unstake_all_loop(s, who, order, candidate_set, now)

\* the orders in which Stake::iter() can meet the non-zero entries of `who`
IterOrders(s, who) ==
    LET staked == {c \in Accounts : s.stake[<<c, who>>] # 0}
    IN Arrangements(staked, Cardinality(staked))

\* set_autocompound(origin = who, percent)
set_autocompound_call(s, who, percent) == Ok([s EXCEPT !.auto[who] = percent], 0)

(***************************************************************************)
(* Rewards: note_author pays one collator of the previous session.         *)
(***************************************************************************)
\* do_reward_single: the transfer out of the pot; `paid` collects the
\* StakingRewardReceived events in the order they are deposited
do_reward_single(s, who, reward) ==
    LET t == transfer(s, Pot, who, reward)
    IN IF ~t.ok THEN t
       ELSE Ok([t.st EXCEPT !.paid = Append(@, [staker |-> who, amount |-> reward])], 0)

\* the body of Stake::iter_prefix(collator).for_each in do_reward_collator, the
\* stakers met in `order`; a failed transfer or a failed compounding is logged
\* and the walk goes on
RECURSIVE reward_stakers(_, _, _, _, _, _)
reward_stakers(s, collator, order, stakers_only_rewards, deposit, pos) ==
    IF order = <<>> THEN s
    ELSE LET staker == Head(order)
             stake == s.stake[<<collator, staker>>]
             staker_reward == (stakers_only_rewards * stake) \div deposit
             t == do_reward_single(s, staker, staker_reward)
             compound_amount == PercentMul(s.auto[staker], stake)
             r == do_stake_at_position(t.st, staker, compound_amount, pos, FALSE)
             s1 == IF ~t.ok THEN s
                   ELSE IF compound_amount = 0 THEN t.st
                   ELSE IF r.ok THEN r.st ELSE t.st
         IN reward_stakers(s1, collator, Tail(order), stakers_only_rewards, deposit, pos)

\* do_reward_collator(collator, blocks, session); the two divisions panic on a
\* zero divisor
do_reward_collator(s, collator, blocks, session, order) ==
    LET pos == get_candidate(s, collator)
        collator_info == s.cl[pos + 1]
        total_rewards == s.rewards[session]
        total_session_blocks == s.total[session]
        rewards_all == (total_rewards * blocks) \div total_session_blocks
        collator_only_reward == PercentMul(CollatorRewardPercentage, rewards_all)
        t == do_reward_single(s, collator, collator_only_reward)
        s1 == IF t.ok THEN t.st ELSE s
        stakers_only_rewards == SatSub(total_rewards, collator_only_reward)
        s2 == reward_stakers(s1, collator, order, stakers_only_rewards,
                             collator_info.deposit, pos)
    IN IF pos = None THEN Ok(s, 0)
       ELSE IF total_session_blocks = 0 THEN Panic(s)
       ELSE IF order # <<>> /\ collator_info.deposit = 0 THEN Panic(s)
       ELSE Ok([s2 EXCEPT !.cl = reassign_candidate_position(@, pos)], 0)

\* reward_one_collator whose drain() is not cut by take(1): the previous
\* session's entries are all removed and the first one is paid
reward_one_collator_drains_prefix(s, current_session, collator, order) ==
    IF current_session > 0 /\ collator # None
    THEN LET previous_session == current_session - 1
             blocks == s.produced[<<previous_session, collator>>]
         IN do_reward_collator([s EXCEPT !.produced = [k \in Sessions \X Accounts |->
                                                         IF k[1] = previous_session THEN 0 ELSE @[k]]],
                               collator, blocks, previous_session, order)
    ELSE Ok(s, 0)

\* reward_one_collator: drain().take(1) removes and pays the first entry of the
\* previous session that the storage iterator meets, here `collator`
reward_one_collator(s, current_session, collator, order) ==
    IF current_session > 0 /\ collator # None
    THEN LET previous_session == current_session - 1
             blocks == s.produced[<<previous_session, collator>>]
         IN do_reward_collator([s EXCEPT !.produced[<<previous_session, collator>>] = 0],
                               collator, blocks, previous_session, order)
    ELSE Ok(s, 0)

\* note_author that counts the blocks of invulnerables as produced blocks too
note_author_counts_invulnerables(s, author, collator, order, now) ==
    LET current_session == s.session
        s1 == [s EXCEPT !.lab[author] = now, !.total[current_session] = @ + 1]
        s2 == [s1 EXCEPT !.produced[<<current_session, author>>] = @ + 1]
    IN reward_one_collator(s2, current_session, collator, order)

\* EventHandler::note_author(author)
note_author_call(s, author, collator, order, now) ==
    LET current_session == s.session
        s1 == [s EXCEPT !.lab[author] = now, !.total[current_session] = @ + 1]
        s2 == IF ~is_invulnerable(s1, author)
              THEN [s1 EXCEPT !.produced[<<current_session, author>>] = @ + 1]
              ELSE s1
    IN reward_one_collator(s2, current_session, collator, order)

\* the entries of the previous session one of which drain().take(1) meets first
\* (None when there is none)
DrainChoices(s) ==
    LET pending == IF s.session > 0
                   THEN {a \in Accounts : s.produced[<<s.session - 1, a>>] # 0}
                   ELSE {}
    IN IF pending = {} THEN {None} ELSE pending

\* the orders in which Stake::iter_prefix(collator) can meet the stakers
StakerOrders(s, collator) ==
    LET stakers == {a \in Accounts : collator # None /\ s.stake[<<collator, a>>] # 0}
    IN Arrangements(stakers, Cardinality(stakers))

(***************************************************************************)
(* SessionManager::new_session: kick_stale_candidates, then                *)
(* assemble_collators.                                                     *)
(***************************************************************************)
\* kick_stale_candidates walks the accounts of the list read before the walk,
\* each with the position it had in that list; `kept` counts the Some(c).
RECURSIVE kick_loop(_, _, _, _, _)
kick_loop(s, candidates, pos, kept, now) ==
    IF pos >= Len(candidates) THEN Ok(s, kept)
    ELSE LET c == candidates[pos + 1]
             last_block == s.lab[c]
             since_last == SatSub(now, last_block)
             is_lazy == since_last >= KickThreshold
         IN IF is_invulnerable(s, c)
            THEN LET r == try_remove_candidate_at_position(s, pos, FALSE, FALSE, now)
                 IN IF r.err = "panic" THEN r
                    ELSE kick_loop(r.st, candidates, pos + 1, kept, now)
            ELSE IF eligible_collators(s) <= MinEligibleCollators \/ ~is_lazy
            THEN kick_loop(s, candidates, pos + 1, kept + 1, now)
            ELSE LET r == try_remove_candidate_at_position(s, pos, TRUE, FALSE, now)
                 IN IF r.err = "panic" THEN r
                    ELSE kick_loop(r.st, candidates, pos + 1, kept, now)

kick_stale_candidates(s, now) ==
    kick_loop(s, [i \in 1..Len(s.cl) |-> s.cl[i].who], 0, 0, now)

\* assemble_collators: the invulnerables, then the last desired_candidates
\* entries of the list from the back
Reverse(seq) == [i \in 1..Len(seq) |-> seq[Len(seq) + 1 - i]]

assemble_collators(s) ==
    LET rev == Reverse([i \in 1..Len(s.cl) |-> s.cl[i].who])
    IN s.inv \o SubSeq(rev, 1, Minimum(s.desired, Len(rev)))

new_session_call(s, now) ==
    LET r == kick_stale_candidates(s, now)
    IN IF ~r.ok THEN r ELSE Ok(r.st, assemble_collators(r.st))

\* ExtraReward has no writer in the pallet: it reads None in every state
ExtraReward == None

\* SessionManager::end_session(session)
end_session_call(s, session) ==
    LET produced_blocks == s.total[session]
        t == IF ExtraReward = None THEN Ok(s, 0)
             ELSE transfer(s, ExtraReward[1], Pot, ExtraReward[2] * produced_blocks)
        s1 == IF t.ok THEN t.st ELSE s
        total_rewards == s1.free[Pot]
    IN [s1 EXCEPT !.rewards[session] = total_rewards]

\* start_session that never cleans up after an older session
start_session_keeps_history(s, session) ==
    [s EXCEPT !.total[session] = 0, !.session = session]

\* SessionManager::start_session(session)
start_session_call(s, session) ==
    LET s1 == [s EXCEPT !.total[session] = 0, !.session = session]
        last_session == session - 2
    IN IF session > 1
       THEN [s1 EXCEPT !.total[last_session] = 0,
                       !.rewards[last_session] = 0,
                       !.produced = [k \in Sessions \X Accounts |->
                                        IF k[1] = last_session THEN 0 ELSE @[k]]]
       ELSE s1

\* the session host rotates: end_session(i), start_session(i + 1),
\* new_session(i + 2), in one block initialisation
rotate_session(s, now) ==
    LET session_index == s.session
        s1 == end_session_call(s, session_index)
        s2 == start_session_call(s1, session_index + 1)
    IN new_session_call(s2, now)

(***************************************************************************)
(* Actions.                                                                *)
(***************************************************************************)
\* a run is MaxSteps operations long and ends at the first call that returns an error
RunOpen == steps < MaxSteps /\ last.res = "Ok"

InvulnerableInputs == UNION {[1..n -> InvulnerablePool] : n \in 0..MaxInvulnerables}

SetInvulnerables ==
    /\ RunOpen
    /\ \E new \in InvulnerableInputs :
          Finish("set_invulnerables", 0, 0, 0, set_invulnerables_call(Store, new))

SetDesiredCandidates ==
    /\ RunOpen
    /\ \E max \in {1, MaxCandidates + MaxInvulnerables, MaxCandidates + MaxInvulnerables + 1} :
          Finish("set_desired_candidates", 0, 0, max, set_desired_candidates_call(Store, max))

SetCandidacyBond ==
    /\ RunOpen
    /\ \E bond \in Bonds :
          Finish("set_candidacy_bond", 0, 0, bond, set_candidacy_bond_call(Store, bond))

RegisterAsCandidate ==
    /\ RunOpen
    /\ \E who \in Accounts :
          Finish("register_as_candidate", who, 0, 0,
                 register_as_candidate_call(Store, who, block_number))

LeaveIntent ==
    /\ RunOpen
    /\ \E who \in Accounts :
          Finish("leave_intent", who, 0, 0, leave_intent_call(Store, who, block_number))

AddInvulnerable ==
    /\ RunOpen
    /\ \E who \in InvulnerablePool :
          Finish("add_invulnerable", 0, who, 0, add_invulnerable_call(Store, who, block_number))

RemoveInvulnerable ==
    /\ RunOpen
    /\ \E who \in InvulnerablePool :
          Finish("remove_invulnerable", 0, who, 0, remove_invulnerable_call(Store, who))

TakeCandidateSlot ==
    /\ RunOpen
    /\ \E who \in Accounts, deposit \in Bonds, target \in Accounts :
          Finish("take_candidate_slot", who, target, deposit,
                 take_candidate_slot_call(Store, who, deposit, target, block_number))

StakeOp ==
    /\ RunOpen
    /\ \E who \in Accounts, candidate \in Accounts, amount \in Amounts :
          Finish("stake", who, candidate, amount, stake_call(Store, who, candidate, amount))

UnstakeFrom ==
    /\ RunOpen
    /\ \E who \in Accounts, candidate \in Accounts :
          Finish("unstake_from", who, candidate, 0,
                 unstake_from_call(Store, who, candidate, block_number))

UnstakeAll ==
    /\ RunOpen
    /\ \E who \in Accounts :
          \E order \in IterOrders(Store, who) :
              Finish("unstake_all", who, 0, 0, unstake_all_call(Store, who, order, block_number))

Claim ==
    /\ RunOpen
    /\ \E who \in Accounts :
          Finish("claim", who, 0, 0, do_claim(Store, who, block_number))

SetAutocompound ==
    /\ RunOpen
    /\ \E who \in Accounts, percent \in AutocompoundPercents :
          Finish("set_autocompound", who, 0, percent, set_autocompound_call(Store, who, percent))

NoteAuthor ==
    /\ RunOpen
    /\ \E author \in Registered, collator \in DrainChoices(Store) :
          \E order \in StakerOrders(Store, collator) :
              Finish("note_author", author, 0, 0,
                     note_author_call(Store, author, collator, order, block_number))

RotateSession ==
    /\ RunOpen
    /\ CurrentSession < MaxSession
    /\ Finish("rotate_session", 0, 0, 0, rotate_session(Store, block_number))

\* fees of the host land in the pot
CollectFees ==
    /\ RunOpen
    /\ free_balance' = [free_balance EXCEPT ![Pot] = @ + FeePerBlock]
    /\ last' = [NoOp EXCEPT !.op = "collect_fees"]
    /\ steps' = steps + 1
    /\ UNCHANGED <<CandidateList, Invulnerables, LastAuthoredBlock, DesiredCandidates,
                   CandidacyBond, Stake, UnstakingRequests, reserved_balance,
                   CurrentSession, TotalBlocks, Rewards, ProducedBlocks, Autocompound,
                   block_number>>

\* the host's clock moves on
AdvanceBlock ==
    /\ RunOpen
    /\ \E b \in {block_number + 1, MaxBlock} :
          /\ block_number < b /\ b <= MaxBlock
          /\ block_number' = b
          /\ last' = [NoOp EXCEPT !.op = "advance_block"]
          /\ steps' = steps + 1
          /\ UNCHANGED <<CandidateList, Invulnerables, LastAuthoredBlock, DesiredCandidates,
                         CandidacyBond, Stake, UnstakingRequests, free_balance,
                         reserved_balance, CurrentSession, TotalBlocks, Rewards,
                         ProducedBlocks, Autocompound>>

Next ==
    \/ SetInvulnerables
    \/ SetDesiredCandidates
    \/ SetCandidacyBond
    \/ RegisterAsCandidate
    \/ LeaveIntent
    \/ AddInvulnerable
    \/ RemoveInvulnerable
    \/ TakeCandidateSlot
    \/ StakeOp
    \/ UnstakeFrom
    \/ UnstakeAll
    \/ Claim
    \/ SetAutocompound
    \/ NoteAuthor
    \/ RotateSession
    \/ CollectFees
    \/ AdvanceBlock

Spec == Init /\ [][Next]_vars

(***************************************************************************)
(* Properties.                                                             *)
(***************************************************************************)
InvulnerableSet == {Invulnerables[i] : i \in 1..Len(Invulnerables)}

StakeOn(st, c) == SumOver([a \in Accounts |-> st[<<c, a>>]], Accounts)

DepositOf(cl, c) == cl[get_candidate([cl |-> cl], c) + 1].deposit

C3_RegisterThenStake ==
    /\ \A C \in Accounts :
          (/\ C \in Registered
           /\ C \notin InvulnerableSet
           /\ C \notin Whos(CandidateList)
           /\ free_balance[C] >= CandidacyBond
           /\ Len(CandidateList) < MaxCandidates
           /\ StakeOn(Stake, C) = 0)
          => LET r == register_as_candidate_call(Store, C, block_number)
             IN /\ r.ok
                /\ C \in Whos(r.st.cl)
                /\ DepositOf(r.st.cl, C) = CandidacyBond
                /\ r.st.stake[<<C, C>>] = CandidacyBond
                /\ r.st.reserved[C] = reserved_balance[C] + CandidacyBond
    /\ \A C \in Whos(CandidateList), S \in Accounts, x \in Amounts :
          (S # C /\ Stake[<<C, S>>] = 0 /\ x >= MinStake /\ free_balance[S] >= x)
          => LET r == stake_call(Store, S, C, x)
             IN /\ r.ok
                /\ DepositOf(r.st.cl, C) = DepositOf(CandidateList, C) + x
                /\ r.st.stake[<<C, S>>] = x
                /\ r.st.stake[<<C, C>>] = Stake[<<C, C>>]

Disjoint == Whos(CandidateList) \cap InvulnerableSet = {}

C5_EligibleFloorKept ==
    [][(Len(CandidateList) + Len(Invulnerables) >= MinEligibleCollators)
         => (Len(CandidateList') + Len(Invulnerables') >= MinEligibleCollators)]_vars

UnstakeFromAsClaimed(staker, c) ==
    LET stake == Stake[<<c, staker>>]
        r == unstake_from_call(Store, staker, c, block_number)
    IN IF c \in Whos(CandidateList)
       THEN /\ r.ok
            /\ r.st.stake[<<c, staker>>] = 0
            /\ r.st.reserved = reserved_balance
            /\ r.st.free = free_balance
            /\ Len(r.st.reqs[staker]) = Len(UnstakingRequests[staker]) + 1
            /\ \E i \in 1..Len(r.st.reqs[staker]) :
                  /\ r.st.reqs[staker][i].amount = stake
                  /\ RemoveAt(r.st.reqs[staker], i - 1) = UnstakingRequests[staker]
       ELSE /\ r.ok
            /\ r.st.stake[<<c, staker>>] = 0
            /\ r.st.free[staker] = free_balance[staker] + stake
            /\ r.st.reserved[staker] = reserved_balance[staker] - stake
            /\ r.st.reqs = UnstakingRequests

C8_UnlockBlock ==
    \A r \in last.created :
        /\ r.block = block_number + (IF r.staker = r.candidate
                                     THEN CollatorUnstakingDelay
                                     ELSE UserUnstakingDelay)
        /\ \E i \in 1..Len(UnstakingRequests[r.staker]) :
              UnstakingRequests[r.staker][i] = [block |-> r.block, amount |-> r.amount]

\* one operation created a request of a candidate on itself and one of a staker
\* on another candidate
C8_Witness ==
    \E r1 \in last.created, r2 \in last.created :
        r1.staker = r1.candidate /\ r2.staker # r2.candidate

C11_ClaimTwice ==
    \A who \in Accounts :
        LET first == do_claim(Store, who, block_number)
            second == do_claim(first.st, who, block_number)
        IN /\ first.ok /\ second.ok
           /\ second.val = 0
           /\ second.st = first.st

\* a claim has just released a due request of the caller; claiming again at
\* this block changes nothing
C11_Witness ==
    /\ last.op = "claim"
    /\ last.res = "Ok"
    /\ last.who \in Accounts
    /\ do_claim(Store, last.who, block_number).val = 0

\* C12: unstake_from on a current candidate, by a staker with an entry on it
\* whose queue holds MaxStakedCandidates requests, fails with
\* TooManyUnstakingRequests and leaves Stake, the queue, the reserved balance
\* and CandidateList (the whole state) as they were; after a claim, now or at
\* a later block, that removed requests, the same unstake_from succeeds.
C12_FullQueue ==
    \A who \in Accounts, c \in Accounts :
        ( /\ c \in Whos(CandidateList)
          /\ Stake[<<c, who>>] # 0
          /\ Len(UnstakingRequests[who]) = MaxStakedCandidates ) =>
            LET r == unstake_from_call(Store, who, c, block_number)
            IN /\ r.err = "TooManyUnstakingRequests"
               /\ Committed(Store, r) = Store
               /\ \A now \in block_number..MaxBlock :
                     LET claimed == do_claim(Store, who, now)
                         again == unstake_from_call(claimed.st, who, c, now)
                     IN claimed.val > 0 =>
                           /\ again.ok
                           /\ again.st.stake[<<c, who>>] = 0
                           /\ Len(again.st.reqs[who]) = MaxStakedCandidates - claimed.val + 1

\* a staker with a full queue and an entry on a current candidate, one of
\* whose requests a claim at a later block removes
C12_Witness ==
    \E who \in Accounts, c \in Whos(CandidateList) :
        /\ Stake[<<c, who>>] # 0
        /\ Len(UnstakingRequests[who]) = MaxStakedCandidates
        /\ ~unstake_from_call(Store, who, c, block_number).ok
        /\ \E now \in block_number..MaxBlock :
              /\ do_claim(Store, who, now).val = 1
              /\ unstake_from_call(do_claim(Store, who, now).st, who, c, now).ok

LeaveIntentAsClaimed(c) ==
    LET r == leave_intent_call(Store, c, block_number)
        stake == Stake[<<c, c>>]
        request == [block |-> block_number + CollatorUnstakingDelay, amount |-> stake]
    IN /\ r.ok
       /\ c \notin Whos(r.st.cl)
       /\ r.st.cl = RemoveAt(CandidateList, get_candidate(Store, c))
       /\ r.st.stake = [Stake EXCEPT ![<<c, c>>] = 0]
       /\ r.st.reserved = reserved_balance
       /\ r.st.free = free_balance
       /\ r.st.lab = [LastAuthoredBlock EXCEPT ![c] = 0]
       /\ IF stake = 0 THEN r.st.reqs = UnstakingRequests
          ELSE /\ \A a \in Accounts \ {c} : r.st.reqs[a] = UnstakingRequests[a]
               /\ \E i \in 1..Len(r.st.reqs[c]) :
                     /\ r.st.reqs[c][i] = request
                     /\ RemoveAt(r.st.reqs[c], i - 1) = UnstakingRequests[c]

C17_InvulnerablesStrictlySorted ==
    /\ \A i \in 1..(Len(Invulnerables) - 1) : Invulnerables[i] < Invulnerables[i + 1]
    /\ Len(Invulnerables) <= MaxInvulnerables

NothingPaidYet ==
    \/ last.op = "rotate_session"
    \/ steps <= 1 /\ last.op # "note_author"

C27_RewardsAboveExistentialDeposit ==
    LET after == end_session_call(Store, CurrentSession)
    IN /\ after.rewards[CurrentSession] = SatSub(after.free[Pot], ExistentialDeposit)
       /\ after.free[Pot] >= ExistentialDeposit =>
             after.free[Pot] - after.rewards[CurrentSession] >= ExistentialDeposit

\* the accounts that are no longer candidates and still carry stake of others
ExCandidatesWithStake ==
    {c \in Accounts : c \notin Whos(CandidateList)
                      /\ \E a \in Accounts \ {c} : Stake[<<c, a>>] # 0}

C32_EveryEntryRewardedBeforeCleanup ==
    [][ ( CurrentSession >= 1 /\ CurrentSession' = CurrentSession + 1 ) =>
            \A a \in Accounts : ProducedBlocks[<<CurrentSession - 1, a>>] = 0 ]_vars


\* C33: one note_author call removes at most one ProducedBlocks entry, always
\* one of session CurrentSession - 1, and pays nobody but that entry's
\* candidate and the stakers of that candidate; the entries of the current
\* session are never paid or removed, and nothing is paid or removed while
\* CurrentSession = 0.
C33_OneEntryPerTick ==
    LET st == Store
    IN \A author \in Registered, collator \in DrainChoices(st) :
          \A order \in StakerOrders(st, collator) :
              LET r == note_author_call(st, author, collator, order, block_number)
                  removed == {k \in Sessions \X Accounts :
                                 r.st.produced[k] < ProducedBlocks[k]}
                  payees == {r.st.paid[i].staker : i \in 1..Len(r.st.paid)}
              IN r.ok =>
                    /\ Cardinality(removed) <= 1
                    /\ \A k \in removed : /\ k[1] = CurrentSession - 1
                                          /\ r.st.produced[k] = 0
                    /\ \A a \in payees :
                          \E k \in removed : a = k[2] \/ Stake[<<k[2], a>>] # 0
                    /\ r.st.free[Pot] < free_balance[Pot] => payees # {}
                    /\ CurrentSession = 0 =>
                          /\ removed = {}
                          /\ r.st.free = free_balance

\* a reward step has just paid out of the pot for an entry of the previous
\* session, which is gone, while the author's entry of the current session stays
C33_Witness ==
    /\ last.op = "note_author"
    /\ last.res = "Ok"
    /\ CurrentSession >= 1
    /\ free_balance[Pot] < Rewards[CurrentSession - 1]
    /\ ProducedBlocks[<<CurrentSession, last.who>>] > 0
    /\ \E a \in Whos(CandidateList) : ProducedBlocks[<<CurrentSession - 1, a>>] = 0


NoAccounting(st, n) ==
    /\ st.total[n] = 0
    /\ st.rewards[n] = 0
    /\ \A a \in Accounts : st.produced[<<n, a>>] = 0

\* C35: after start_session(s) with s >= 2, TotalBlocks, Rewards and
\* ProducedBlocks hold nothing for session s - 2, the accounting of session
\* s - 1 is as it was and the counters of session s are zero; the host calling
\* start_session with consecutive indices, every reachable state holds
\* accounting for the current and the previous session at most.
C35_TwoSessionsOfAccounting ==
    /\ \A n \in Sessions :
          n \notin {CurrentSession, CurrentSession - 1} => NoAccounting(Store, n)
    /\ CurrentSession < MaxSession =>
          LET ended == end_session_call(Store, CurrentSession)
              s == CurrentSession + 1
              started == start_session_call(ended, s)
          IN /\ started.session = s
             /\ NoAccounting(started, s)
             /\ s >= 2 => NoAccounting(started, s - 2)
             /\ started.total[s - 1] = ended.total[s - 1]
             /\ started.rewards[s - 1] = ended.rewards[s - 1]
             /\ \A a \in Accounts :
                   started.produced[<<s - 1, a>>] = ended.produced[<<s - 1, a>>]

\* start_session(2) has just run: session 0, which had blocks and a reward
\* pool, holds nothing, and session 1 keeps its blocks and its pool
C35_Witness ==
    /\ last.op = "rotate_session"
    /\ last.res = "Ok"
    /\ CurrentSession = 2
    /\ NoAccounting(Store, 0)
    /\ TotalBlocks[1] > 0
    /\ Rewards[1] > 0
    /\ \E a \in Accounts : ProducedBlocks[<<1, a>>] > 0


\* candidate c sits at a lower index than every other entry of the list with
\* the same deposit
BelowItsEquals(cl, c) ==
    \A i, j \in 1..Len(cl) :
        ( cl[i].who = c /\ j # i /\ cl[j].deposit = cl[i].deposit ) => i < j

C37_DesiredWithinCapacity == DesiredCandidates <= MaxCandidates


\* the amounts waiting in the unstake requests `requests`
RECURSIVE Pending(_)
Pending(requests) ==
    IF requests = <<>> THEN 0 ELSE Head(requests).amount + Pending(Tail(requests))

\* C38: in every reachable state the balance reserved from an account equals
\* the sum of its Stake entries over all candidates and ex-candidates plus the
\* amounts of its pending unstake requests.
C38_ReservedMatchesLedger ==
    \A A \in Accounts :
        reserved_balance[A] =
            SumOver([c \in Accounts |-> Stake[<<c, A>>]], Accounts)
                + Pending(UnstakingRequests[A])


\* an account holds stake on an account that is no longer a candidate and has
\* an unstake request pending, both still reserved
C38_Witness ==
    \E A \in Accounts :
        /\ Pending(UnstakingRequests[A]) > 0
        /\ \E c \in Accounts \ Whos(CandidateList) : Stake[<<c, A>>] > 0
        /\ reserved_balance[A] >= MinStake + Pending(UnstakingRequests[A])


\* C39: the collator set that new_session returns never lists an account
\* twice, whatever reachable Invulnerables and CandidateList it starts from.
C39_CollatorSetWithoutDuplicates ==
    LET r == new_session_call(Store, block_number)
    IN r.ok => \A i, j \in 1..Len(r.val) : r.val[i] = r.val[j] => i = j


\* the account has no stake, no pending request and nothing reserved
Released(st, A) ==
    /\ \A c \in Accounts : st.stake[<<c, A>>] = 0
    /\ st.reqs[A] = <<>>
    /\ st.reserved[A] = 0

\* the first block, from `now` on, at which every request of the queue is due
RECURSIVE LastUnlock(_, _)
LastUnlock(requests, now) ==
    IF requests = <<>> THEN now
    ELSE LET rest == LastUnlock(Tail(requests), now)
         IN IF Head(requests).block > rest THEN Head(requests).block ELSE rest

\* the account calls unstake_from on its entries, in any order; a call refused
\* because the queue is full is retried after a claim at a block at which the
\* queue is due; a last claim follows when no stake is left
RECURSIVE ExitsByUnstakeFrom(_, _, _, _)
ExitsByUnstakeFrom(st, A, now, calls) ==
    LET staked == {c \in Accounts : st.stake[<<c, A>>] # 0}
        later == LastUnlock(st.reqs[A], now)
        claimed == do_claim(st, A, later).st
    IN IF staked = {} THEN Released(claimed, A)
       ELSE IF calls = 0 THEN FALSE
       ELSE \A c \in staked :
               LET r == unstake_from_call(st, A, c, now)
               IN IF r.ok THEN ExitsByUnstakeFrom(r.st, A, now, calls - 1)
                  ELSE ExitsByUnstakeFrom(claimed, A, later, calls - 1)

\* the same with unstake_all in place of the unstake_from calls
RECURSIVE ExitsByUnstakeAll(_, _, _, _)
ExitsByUnstakeAll(st, A, now, calls) ==
    LET later == LastUnlock(st.reqs[A], now)
        claimed == do_claim(st, A, later).st
    IN IF \A c \in Accounts : st.stake[<<c, A>>] = 0 THEN Released(claimed, A)
       ELSE IF calls = 0 THEN FALSE
       ELSE \A order \in IterOrders(st, A) :
               LET r == unstake_all_call(st, A, order, now)
               IN IF r.ok THEN ExitsByUnstakeAll(r.st, A, now, calls - 1)
                  ELSE ExitsByUnstakeAll(claimed, A, later, calls - 1)

====
